---- MODULE Spec2Model ----
(***************************************************************************)
(* A model of the RTS_Fhe_Game repository:                                 *)
(*   - contracts/RTS_Fhe_Game.sol : the batch / player ledger contract     *)
(*     RTSFheGameFHE (allow-list, pause flag, cooldown, batches,           *)
(*     decryption request / callback);                                     *)
(*   - frontend/web/src/App.tsx   : the record store client (submitResource*)
(*     and loadResources over a key -> blob ledger).                       *)
(* Every contract call is one atomic transaction: a revert restores the    *)
(* whole storage and emits nothing.                                        *)
(***************************************************************************)
EXTENDS Integers, Sequences, FiniteSets, TLC

(***************************************************************************)
(* Bounds of the model.                                                    *)
(***************************************************************************)
MaxBatch == 2        \* openNewBatch is explored up to this batch id
MaxRequests == 2     \* number of decryption requests the oracle hands out
MaxTime == 60        \* block.timestamp is explored up to this value
MaxOwnerCalls == 2   \* successful owner transactions explored
MaxSubmissions == 3  \* successful submitEncryptedResources transactions explored
MaxRecordIds == 2    \* record ids the front end can draw
MaxSubmits == 2      \* submitResource runs explored

(***************************************************************************)
(* Program constants.                                                      *)
(***************************************************************************)
DefaultCooldown == 30     \* constructor: cooldownSeconds = 30

ZeroAddress == 0                 \* address(0)
Deployer == 1                    \* msg.sender of the constructor
Senders == {1, 2}                \* externally owned accounts that send calls
Address == {ZeroAddress} \cup Senders
ThisAddress == "this"            \* address(this)

Batches == 0 .. MaxBatch         \* 0 is the batch id of a never-written context
RequestIds == 0 .. MaxRequests   \* ids >= counterRequest were never issued
TotalHandles == {0, 1, 2}        \* euint32 as bytes32; 0 is "not initialised"
RateHandles == {0, 1}
StartTime == DefaultCooldown     \* block.timestamp of the deployment
TickSteps == {30}                \* seconds between two observed blocks
\* A 32-byte word of the cleartext bytes, as <<upper 224 bits, lower 32 bits>>.
\* The cleartext bytes a callback is given, as a sequence of 32-byte words.
Cleartexts == {<<w>> : w \in {<<0, 5>>}} \cup {<<<<0, 5>>, <<0, 7>>>>, <<<<1, 5>>, <<0, 7>>>>}
CooldownValues == {0, 30}        \* arguments tried for setCooldownSeconds

VARIABLES
    \* ---- contract storage (RTS_Fhe_Game.sol 42-52) ----
    isProvider, playerData, batchOpen, decryptionContexts,
    lastSubmissionTime, lastDecryptionRequestTime,
    owner, cooldownSeconds, currentBatchId, paused,
    \* ---- environment of the contract ----
    now,              \* block.timestamp
    counterRequest,   \* the decryption oracle's request counter
    ownerCalls,       \* successful owner transactions so far (bounds the search)
    submissions,      \* successful submissions so far (bounds the search)
    \* ---- observation of the calls ----
    lastCall,         \* receipt of the last transaction: op, sender, result, event
    completedCount,   \* per request id: DecryptionCompleted events in the log
    requestedCount,   \* per request id: DecryptionRequested events in the log
    requestedBy,      \* per request id: msg.sender of the request (0: none)
    requestedFor,     \* per request id: _playerAddress of the request
    \* ---- the ledger record store the front end talks to ----
    indexBlob,        \* the blob under the key "resource_keys"
    recordBlob,       \* per record id: the blob under the key "resource_<id>"
    \* ---- front end (App.tsx), one instance per client ----
    pc,               \* where the client's async function is suspended
    pending,          \* locals of the running function: id, data, keys
    resources,        \* React state: the list set by the last loadResources
    submitsStarted,   \* submitResource runs so far (bounds the search)
    submitted,        \* per record id: the object submitResource last wrote
    fetchFailed,      \* the getData awaited by the last step threw
    \* ---- the detail modal of one App instance (App.tsx 44-47, 178-199) ----
    selectedResource, \* React state: the row shown in the modal, or null
    decryptedAmount,  \* React state: number or null
    decryptedRate,    \* React state: number or null
    isDecrypting,     \* React state: disables the Decrypt buttons
    decryptPc,        \* where the running decryptResource is suspended
    decryptLocals     \* its locals: resource and amount

storage == <<isProvider, playerData, batchOpen, decryptionContexts,
             lastSubmissionTime, lastDecryptionRequestTime,
             owner, cooldownSeconds, currentBatchId, paused>>
eventLog == <<completedCount, requestedCount>>
oracle == <<counterRequest, requestedBy, requestedFor>>
budget == <<ownerCalls, submissions>>
contractVars == <<storage, eventLog, oracle, budget, now, lastCall>>

storeVars == <<indexBlob, recordBlob>>
clientVars == <<pc, pending, resources, submitsStarted, submitted, fetchFailed>>
modalVars == <<selectedResource, decryptedAmount, decryptedRate, isDecrypting,
               decryptPc, decryptLocals>>
frontVars == <<storeVars, clientVars, modalVars>>

vars == <<contractVars, frontVars>>

(***************************************************************************)
(* Data.                                                                   *)
(***************************************************************************)
\* struct PlayerData: two euint32 handles; the default value has both 0.
PlayerData(total, rate) ==
    [encryptedTotalResources |-> total, encryptedCollectionRate |-> rate]

\* struct DecryptionContext; the default value is all zero.
DecryptionContext(b, h, p) == [batchId |-> b, stateHash |-> h, processed |-> p]

\* bytes32(0), the stateHash of a context that was never written.
ZeroHash == <<>>

\* euint32.isInitialized(): the handle is not zero.
isInitialized(h) == h # 0

\* Mutant: a pair of uninitialised handles hashes to bytes32(0).
hashCiphertextsZeroDefault(cts) ==
    IF cts = <<0, 0>> THEN ZeroHash ELSE <<cts, ThisAddress>>

\* _hashCiphertexts: keccak256(abi.encode(handles, address(this))).  keccak256
\* is modelled as injective and never zero: the hash is the encoded tuple.
hashCiphertexts(cts) == <<cts, ThisAddress>>

\* The receipt of a transaction: the function called, msg.sender, "ok" or the
\* name of the error it reverted with, and the event it emitted (<<>>: none).
Call(op, s, res, ev) ==
    [op |-> op, sender |-> s, result |-> res, emitted |-> ev]

\* No transaction has been observed since the last block or discarded receipt.
NoCall == Call("none", ZeroAddress, "ok", <<>>)

(***************************************************************************)
(* Modifiers (each is TRUE when the modifier lets the call through).       *)
(***************************************************************************)
\* Mutant: allow-listed providers pass the owner check as well.
onlyOwnerOrProvider(s) == s = owner \/ isProvider[s]

onlyOwner(s) == s = owner

\* Mutant: the owner passes the provider check without being allow-listed.
onlyProviderOrOwner(s) == isProvider[s] \/ s = owner

onlyProvider(s) == isProvider[s]

\* Mutant: the pause flag is not looked at.
whenNotPausedIgnored == TRUE

whenNotPaused == ~paused

\* Mutant: the window is closed one second too long (<= for <).
checkCooldownOffByOne(u) == ~(now <= lastSubmissionTime[u] + cooldownSeconds)

checkCooldown(u) == ~(now < lastSubmissionTime[u] + cooldownSeconds)

(***************************************************************************)
(* Init: the state after the constructor.                                  *)
(***************************************************************************)
InitContract ==
    /\ isProvider = [a \in Address |-> FALSE]
    /\ playerData = [b \in Batches |-> [a \in Address |-> PlayerData(0, 0)]]
    /\ batchOpen = [b \in Batches |-> b = 1]
    /\ decryptionContexts = [r \in RequestIds |-> DecryptionContext(0, ZeroHash, FALSE)]
    /\ lastSubmissionTime = [a \in Address |-> 0]
    /\ lastDecryptionRequestTime = [a \in Address |-> 0]
    /\ owner = Deployer
    /\ cooldownSeconds = DefaultCooldown
    /\ currentBatchId = 1
    /\ paused = FALSE
    /\ now = StartTime
    /\ counterRequest = 0
    /\ ownerCalls = 0
    /\ submissions = 0
    /\ lastCall = Call("constructor", Deployer, "ok", <<>>)
    /\ completedCount = [r \in RequestIds |-> 0]
    /\ requestedCount = [r \in RequestIds |-> 0]
    /\ requestedBy = [r \in RequestIds |-> ZeroAddress]
    /\ requestedFor = [r \in RequestIds |-> ZeroAddress]

(***************************************************************************)
(* Owner functions.                                                        *)
(***************************************************************************)
addProviderResult(s, p) ==
    IF ~onlyOwner(s) THEN "NotOwner"
    ELSE IF p = ZeroAddress THEN "InvalidArgument"
    ELSE "ok"

addProvider(s, p) ==
    LET res == addProviderResult(s, p) IN
    /\ res = "ok" => ownerCalls < MaxOwnerCalls
    /\ ownerCalls' = IF res = "ok" THEN ownerCalls + 1 ELSE ownerCalls
    /\ lastCall' = Call("addProvider", s, res,
                        IF res = "ok" THEN <<"ProviderAdded", p>> ELSE <<>>)
    /\ isProvider' = IF res = "ok" THEN [isProvider EXCEPT ![p] = TRUE] ELSE isProvider
    /\ UNCHANGED <<playerData, batchOpen, decryptionContexts, lastSubmissionTime,
                   lastDecryptionRequestTime, owner, cooldownSeconds,
                   currentBatchId, paused, eventLog, oracle, submissions, now>>

removeProviderResult(s, p) ==
    IF ~onlyOwner(s) THEN "NotOwner"
    ELSE IF ~isProvider[p] THEN "InvalidArgument"
    ELSE "ok"

removeProvider(s, p) ==
    LET res == removeProviderResult(s, p) IN
    /\ res = "ok" => ownerCalls < MaxOwnerCalls
    /\ ownerCalls' = IF res = "ok" THEN ownerCalls + 1 ELSE ownerCalls
    /\ lastCall' = Call("removeProvider", s, res,
                        IF res = "ok" THEN <<"ProviderRemoved", p>> ELSE <<>>)
    /\ isProvider' = IF res = "ok" THEN [isProvider EXCEPT ![p] = FALSE] ELSE isProvider
    /\ UNCHANGED <<playerData, batchOpen, decryptionContexts, lastSubmissionTime,
                   lastDecryptionRequestTime, owner, cooldownSeconds,
                   currentBatchId, paused, eventLog, oracle, submissions, now>>

setCooldownSecondsResult(s) == IF ~onlyOwner(s) THEN "NotOwner" ELSE "ok"

setCooldownSeconds(s, c) ==
    LET res == setCooldownSecondsResult(s) IN
    /\ res = "ok" => ownerCalls < MaxOwnerCalls
    /\ ownerCalls' = IF res = "ok" THEN ownerCalls + 1 ELSE ownerCalls
    /\ lastCall' = Call("setCooldownSeconds", s, res,
                        IF res = "ok" THEN <<"CooldownSecondsSet", cooldownSeconds, c>>
                        ELSE <<>>)
    /\ cooldownSeconds' = IF res = "ok" THEN c ELSE cooldownSeconds
    /\ UNCHANGED <<isProvider, playerData, batchOpen, decryptionContexts,
                   lastSubmissionTime, lastDecryptionRequestTime, owner,
                   currentBatchId, paused, eventLog, oracle, submissions, now>>

pauseResult(s) ==
    IF ~onlyOwner(s) THEN "NotOwner"
    ELSE IF ~whenNotPaused THEN "Paused"
    ELSE "ok"

pause(s) ==
    LET res == pauseResult(s) IN
    /\ res = "ok" => ownerCalls < MaxOwnerCalls
    /\ ownerCalls' = IF res = "ok" THEN ownerCalls + 1 ELSE ownerCalls
    /\ lastCall' = Call("pause", s, res,
                        IF res = "ok" THEN <<"ContractPaused">> ELSE <<>>)
    /\ paused' = IF res = "ok" THEN TRUE ELSE paused
    /\ UNCHANGED <<isProvider, playerData, batchOpen, decryptionContexts,
                   lastSubmissionTime, lastDecryptionRequestTime, owner,
                   cooldownSeconds, currentBatchId, eventLog, oracle, submissions, now>>

unpauseResult(s) ==
    IF ~onlyOwner(s) THEN "NotOwner"
    ELSE IF ~paused THEN "InvalidArgument"
    ELSE "ok"

\* Mutant: the flag is cleared before the checks and the failure is reported
\* by an early return, which does not roll the write back.
unpauseWriteBeforeCheck(res) == FALSE

\* paused = false, reached only when no check reverted.
unpauseWrite(res) == IF res = "ok" THEN FALSE ELSE paused

unpause(s) ==
    LET res == unpauseResult(s) IN
    /\ res = "ok" => ownerCalls < MaxOwnerCalls
    /\ ownerCalls' = IF res = "ok" THEN ownerCalls + 1 ELSE ownerCalls
    /\ lastCall' = Call("unpause", s, res,
                        IF res = "ok" THEN <<"ContractUnpaused">> ELSE <<>>)
    /\ paused' = unpauseWrite(res)
    /\ UNCHANGED <<isProvider, playerData, batchOpen, decryptionContexts,
                   lastSubmissionTime, lastDecryptionRequestTime, owner,
                   cooldownSeconds, currentBatchId, eventLog, oracle, submissions, now>>

openNewBatchResult(s) == IF ~onlyOwner(s) THEN "NotOwner" ELSE "ok"

openNewBatch(s) ==
    LET res == openNewBatchResult(s) IN
    /\ res = "ok" => ownerCalls < MaxOwnerCalls /\ currentBatchId < MaxBatch
    /\ ownerCalls' = IF res = "ok" THEN ownerCalls + 1 ELSE ownerCalls
    /\ lastCall' = Call("openNewBatch", s, res,
                        IF res = "ok" THEN <<"BatchOpened", currentBatchId + 1>> ELSE <<>>)
    /\ currentBatchId' = IF res = "ok" THEN currentBatchId + 1 ELSE currentBatchId
    /\ batchOpen' = IF res = "ok" THEN [batchOpen EXCEPT ![currentBatchId + 1] = TRUE]
                    ELSE batchOpen
    /\ UNCHANGED <<isProvider, playerData, decryptionContexts, lastSubmissionTime,
                   lastDecryptionRequestTime, owner, cooldownSeconds, paused,
                   eventLog, oracle, submissions, now>>

\* Mutant: closing does not look at the flag of the current batch.
closeCurrentBatchResultUnchecked(s) == IF ~onlyOwner(s) THEN "NotOwner" ELSE "ok"

closeCurrentBatchResult(s) ==
    IF ~onlyOwner(s) THEN "NotOwner"
    ELSE IF ~batchOpen[currentBatchId] THEN "InvalidArgument"
    ELSE "ok"

closeCurrentBatch(s) ==
    LET res == closeCurrentBatchResult(s) IN
    /\ res = "ok" => ownerCalls < MaxOwnerCalls
    /\ ownerCalls' = IF res = "ok" THEN ownerCalls + 1 ELSE ownerCalls
    /\ lastCall' = Call("closeCurrentBatch", s, res,
                        IF res = "ok" THEN <<"BatchClosed", currentBatchId>> ELSE <<>>)
    /\ batchOpen' = IF res = "ok" THEN [batchOpen EXCEPT ![currentBatchId] = FALSE]
                    ELSE batchOpen
    /\ UNCHANGED <<isProvider, playerData, decryptionContexts, lastSubmissionTime,
                   lastDecryptionRequestTime, owner, cooldownSeconds, currentBatchId,
                   paused, eventLog, oracle, submissions, now>>

(***************************************************************************)
(* Provider functions.                                                     *)
(***************************************************************************)
\* Mutant: the handles are checked before the flag of the current batch.
submitEncryptedResourcesResultArgsFirst(s, total, rate) ==
    IF ~onlyProvider(s) THEN "NotProvider"
    ELSE IF ~whenNotPaused THEN "Paused"
    ELSE IF ~checkCooldown(s) THEN "CooldownActive"
    ELSE IF ~isInitialized(total) THEN "InvalidArgument"
    ELSE IF ~isInitialized(rate) THEN "InvalidArgument"
    ELSE IF ~batchOpen[currentBatchId] THEN "BatchNotOpen"
    ELSE "ok"

submitEncryptedResourcesResult(s, total, rate) ==
    IF ~onlyProvider(s) THEN "NotProvider"
    ELSE IF ~whenNotPaused THEN "Paused"
    ELSE IF ~checkCooldown(s) THEN "CooldownActive"
    ELSE IF ~batchOpen[currentBatchId] THEN "BatchNotOpen"
    ELSE IF ~isInitialized(total) THEN "InvalidArgument"
    ELSE IF ~isInitialized(rate) THEN "InvalidArgument"
    ELSE "ok"

\* Mutant: the entry is written into batch 1, whatever the current batch is.
submitWriteFirstBatch(s, total, rate) ==
    [playerData EXCEPT ![1][s] = PlayerData(total, rate)]

\* Mutant: an entry that is already initialised is kept (first write wins).
submitWriteFirstWins(s, total, rate) ==
    IF isInitialized(playerData[currentBatchId][s].encryptedTotalResources)
    THEN playerData
    ELSE [playerData EXCEPT ![currentBatchId][s] = PlayerData(total, rate)]

\* playerData[currentBatchId][msg.sender] = PlayerData({...})
submitWrite(s, total, rate) ==
    [playerData EXCEPT ![currentBatchId][s] = PlayerData(total, rate)]

submitEncryptedResources(s, total, rate) ==
    LET res == submitEncryptedResourcesResult(s, total, rate) IN
    /\ res = "ok" => submissions < MaxSubmissions
    /\ submissions' = IF res = "ok" THEN submissions + 1 ELSE submissions
    /\ lastCall' = Call("submitEncryptedResources", s, res,
                        IF res = "ok"
                        THEN <<"ResourcesSubmitted", s, currentBatchId, total, rate>>
                        ELSE <<>>)
    /\ playerData' = IF res = "ok" THEN submitWrite(s, total, rate) ELSE playerData
    /\ lastSubmissionTime' = IF res = "ok" THEN [lastSubmissionTime EXCEPT ![s] = now]
                             ELSE lastSubmissionTime
    /\ UNCHANGED <<isProvider, batchOpen, decryptionContexts,
                   lastDecryptionRequestTime, owner, cooldownSeconds,
                   currentBatchId, paused, eventLog, oracle, ownerCalls, now>>

\* The two handles of a stored entry, in the order the code puts them in ctsArray.
ctsArray(data) == <<data.encryptedTotalResources, data.encryptedCollectionRate>>

requestDecryptionForPlayerResult(s, player) ==
    LET data == playerData[currentBatchId][player] IN
    IF ~onlyProvider(s) THEN "NotProvider"
    ELSE IF ~whenNotPaused THEN "Paused"
    ELSE IF ~checkCooldown(s) THEN "CooldownActive"
    ELSE IF ~batchOpen[currentBatchId] THEN "BatchNotOpen"
    ELSE IF ~isInitialized(data.encryptedTotalResources)
            \/ ~isInitialized(data.encryptedCollectionRate) THEN "InvalidArgument"
    ELSE "ok"

\* Mutant: the oracle hands out the id of the previous request again.
requestDecryptionReused == IF counterRequest > 0 THEN counterRequest - 1 ELSE counterRequest

\* FHE.requestDecryption: the oracle hands out its counter as the request id.
requestDecryption == counterRequest

requestDecryptionForPlayer(s, player) ==
    LET res == requestDecryptionForPlayerResult(s, player)
        requestId == requestDecryption
        stateHash == hashCiphertexts(ctsArray(playerData[currentBatchId][player]))
    IN
    /\ res = "ok" => counterRequest < MaxRequests
    /\ lastCall' = Call("requestDecryptionForPlayer", s, res,
                        IF res = "ok"
                        THEN <<"DecryptionRequested", requestId, currentBatchId>>
                        ELSE <<>>)
    /\ IF res = "ok"
       THEN /\ decryptionContexts' =
                  [decryptionContexts EXCEPT
                     ![requestId] = DecryptionContext(currentBatchId, stateHash, FALSE)]
            /\ lastDecryptionRequestTime' =
                  [lastDecryptionRequestTime EXCEPT ![s] = now]
            /\ counterRequest' = counterRequest + 1
            /\ requestedCount' = [requestedCount EXCEPT ![requestId] = @ + 1]
            /\ requestedBy' = [requestedBy EXCEPT ![requestId] = s]
            /\ requestedFor' = [requestedFor EXCEPT ![requestId] = player]
       ELSE UNCHANGED <<decryptionContexts, lastDecryptionRequestTime, counterRequest,
                        requestedCount, requestedBy, requestedFor>>
    /\ UNCHANGED <<isProvider, playerData, batchOpen, lastSubmissionTime, owner,
                   cooldownSeconds, currentBatchId, paused, completedCount, budget, now>>

(***************************************************************************)
(* The callback.                                                           *)
(***************************************************************************)
\* abi.decode(word, (uint32)): reverts unless the word is below 2^32.
decodesUint32(word) == word[1] = 0

\* Mutant: the two words are taken as they are, whatever their upper bits.
decodeOkUnchecked(cleartexts) == Len(cleartexts) >= 2

\* cleartexts[0:32] and cleartexts[32:64] exist and both decode as uint32.
decodeOk(cleartexts) ==
    /\ Len(cleartexts) >= 2
    /\ decodesUint32(cleartexts[1])
    /\ decodesUint32(cleartexts[2])

\* Mutant: the entry is looked up in the batch that is current at the callback.
callbackDataCurrentBatch(requestId, s) == playerData[currentBatchId][s]

\* Mutant: the entry is looked up by the player the request was made for.
callbackDataOfTarget(requestId, s) ==
    playerData[decryptionContexts[requestId].batchId][requestedFor[requestId]]

\* PlayerData storage data = playerData[decryptionContexts[requestId].batchId][msg.sender]
callbackData(requestId, s) ==
    playerData[decryptionContexts[requestId].batchId][s]

\* Mutant: the processed flag is not checked.
myCallbackResultNoReplayCheck(s, requestId, cleartexts, proofOk) ==
    IF hashCiphertexts(ctsArray(callbackData(requestId, s)))
          # decryptionContexts[requestId].stateHash THEN "StateMismatch"
    ELSE IF ~proofOk THEN "InvalidSignatures"
    ELSE IF ~decodeOk(cleartexts) THEN "DecodeError"
    ELSE "ok"

\* proofOk: FHE.checkSignatures(requestId, cleartexts, proof) does not revert.
myCallbackResult(s, requestId, cleartexts, proofOk) ==
    IF decryptionContexts[requestId].processed THEN "ReplayAttempt"
    ELSE IF hashCiphertexts(ctsArray(callbackData(requestId, s)))
              # decryptionContexts[requestId].stateHash THEN "StateMismatch"
    ELSE IF ~proofOk THEN "InvalidSignatures"
    ELSE IF ~decodeOk(cleartexts) THEN "DecodeError"
    ELSE "ok"

myCallback(s, requestId, cleartexts, proofOk) ==
    LET res == myCallbackResult(s, requestId, cleartexts, proofOk) IN
    /\ lastCall' = Call("myCallback", s, res,
                        IF res = "ok"
                        THEN <<"DecryptionCompleted", requestId,
                               decryptionContexts[requestId].batchId,
                               cleartexts[1][2], cleartexts[2][2]>>
                        ELSE <<>>)
    /\ decryptionContexts' =
          IF res = "ok" THEN [decryptionContexts EXCEPT ![requestId].processed = TRUE]
          ELSE decryptionContexts
    /\ completedCount' =
          IF res = "ok" THEN [completedCount EXCEPT ![requestId] = @ + 1]
          ELSE completedCount
    /\ UNCHANGED <<isProvider, playerData, batchOpen, lastSubmissionTime,
                   lastDecryptionRequestTime, owner, cooldownSeconds, currentBatchId,
                   paused, requestedCount, oracle, budget, now>>

(***************************************************************************)
(* Time: a later block.                                                    *)
(***************************************************************************)
Tick(d) ==
    /\ now + d <= MaxTime
    /\ now' = now + d
    /\ lastCall' = NoCall
    /\ UNCHANGED <<storage, eventLog, oracle, budget>>

(***************************************************************************)
(* The record store and its client (frontend/web/src/App.tsx).             *)
(*                                                                         *)
(* JavaScript values: a number is <<"number", isNaN, value>>, a string is  *)
(* <<"string", s>>, undefined is <<"undefined">>; an object is a function  *)
(* from the names of its properties to values.                             *)
(***************************************************************************)
Clients == {1, 2}
RecordIds == 1 .. MaxRecordIds

Undefined == <<"undefined">>
Str(s) == <<"string", s>>
Num(v) == <<"number", FALSE, v>>
NaN == <<"number", TRUE, 0>>

Amounts == {Num(5), NaN}         \* newResourceData.amount (NaN passes the form check)
Rates == {Num(3)}                \* newResourceData.rate
Timestamps == {Num(1), Num(2)}   \* Math.floor(Date.now() / 1000)
ResourceTypes == {"minerals"}    \* of RESOURCE_TYPES
WalletAddress == [c \in Clients |-> Str(IF c = 1 THEN "0xA1" ELSE "0xB2")]

\* Number.prototype.toString on the numbers the model enters.
toString(x) ==
    IF x[2] THEN "NaN"
    ELSE CASE x[3] = 3 -> "3" [] x[3] = 5 -> "5" [] OTHER -> "0"

\* btoa on the strings toString yields.
btoa(str) ==
    CASE str = "NaN" -> "TmFO" [] str = "3" -> "Mw==" [] str = "5" -> "NQ=="
      [] OTHER -> "MA=="

\* FHEEncryptNumber: `FHE-${btoa(value.toString())}`
FHEEncryptNumber(value) == Str("FHE-" \o btoa(toString(value)))

\* obj.name in JavaScript: undefined when the object has no such property.
Get(obj, name) == IF name \in DOMAIN obj THEN obj[name] ELSE Undefined

\* JSON.stringify of an object: properties whose value is undefined are left
\* out; the text is modelled by the object it denotes.
stringify(obj) ==
    [name \in {n \in DOMAIN obj : obj[n] # Undefined} |-> obj[name]]

\* A blob of the ledger: no bytes, bytes that are not JSON, or a JSON text.
EmptyBlob == <<"empty">>
MalformedBlob == <<"malformed">>
\* The bytes of the JSON text "null".
NullBlob == <<"null">>
\* ethers.toUtf8Bytes(JSON.stringify(value))
JsonBlob(value) == <<"json", value>>
\* A JSON array of record ids, and the JSON text "{}" (a value that is no array).
Array(items) == [isArray |-> TRUE, items |-> items]
NotAnArray == [isArray |-> FALSE, items |-> <<>>]

\* What a client may find under "resource_keys" when it starts.
IndexBlobs == {EmptyBlob, JsonBlob(Array(<<>>)), MalformedBlob, JsonBlob(NotAnArray)}

\* null, as a value of React state and as a result of decryptWithSignature.
Null == <<"null">>
\* A state or local that holds an object.
Object(obj) == <<"object", obj>>

\* The locals of a decryptResource that is not running.
NoDecrypt == [resource |-> Null, amount |-> Null]

\* useState(null) three times and useState(false), lines 44-47.
InitModal ==
    /\ selectedResource = Null
    /\ decryptedAmount = Null
    /\ decryptedRate = Null
    /\ isDecrypting = FALSE
    /\ decryptPc = "idle"
    /\ decryptLocals = NoDecrypt

\* The locals of a function that is not running.
NoPending == [id |-> 0, data |-> <<>>, keys |-> <<>>, list |-> <<>>]

InitFrontWith(blob) ==
    /\ indexBlob = blob
    /\ recordBlob = [k \in RecordIds |-> EmptyBlob]
    /\ pc = [c \in Clients |-> "idle"]
    /\ pending = [c \in Clients |-> NoPending]
    /\ resources = [c \in Clients |-> <<>>]
    /\ submitsStarted = 0
    /\ submitted = [k \in RecordIds |-> <<>>]
    /\ fetchFailed = FALSE
    /\ InitModal

\* submitResource, lines 126-148: the object to store and its id.
resourceData(c, amount, rate, ts, type) ==
    [amount |-> FHEEncryptNumber(amount),
     rate |-> FHEEncryptNumber(rate),
     timestamp |-> ts,
     owner |-> WalletAddress[c],
     resourceType |-> Str(type),
     status |-> Str("active")]

submitResource(c, id, amount, rate, ts, type) ==
    /\ pc[c] = "idle"
    /\ submitsStarted < MaxSubmits
    /\ submitsStarted' = submitsStarted + 1
    /\ pending' = [pending EXCEPT ![c] =
          [NoPending EXCEPT !.id = id,
                            !.data = resourceData(c, amount, rate, ts, type)]]
    /\ pc' = [pc EXCEPT ![c] = "setRecord"]
    /\ fetchFailed' = FALSE
    /\ UNCHANGED <<storeVars, resources, submitted>>

\* await contract.setData(`resource_${resourceId}`, ...); a rejected
\* transaction throws and the catch block ends the submission.
submitSetRecord(c, ok) ==
    /\ pc[c] = "setRecord"
    /\ IF ok
       THEN /\ recordBlob' = [recordBlob EXCEPT
                                 ![pending[c].id] = JsonBlob(stringify(pending[c].data))]
            /\ submitted' = [submitted EXCEPT ![pending[c].id] = pending[c].data]
            /\ pc' = [pc EXCEPT ![c] = "getKeys"]
            /\ UNCHANGED pending
       ELSE /\ pc' = [pc EXCEPT ![c] = "idle"]
            /\ pending' = [pending EXCEPT ![c] = NoPending]
            /\ UNCHANGED <<recordBlob, submitted>>
    /\ fetchFailed' = FALSE
    /\ UNCHANGED <<indexBlob, resources, submitsStarted>>

\* submitResource, lines 153-158: keys parsed from the index blob; [] when the
\* blob is empty or does not parse.
submitParseKeys(blob) ==
    IF blob = EmptyBlob \/ blob = MalformedBlob THEN Array(<<>>) ELSE blob[2]

\* const keysBytes = await contract.getData("resource_keys") returns (ok) or
\* throws; ... keys.push(id): push throws when the parsed value is not an
\* array.  A throw ends the submission in its catch block.
submitGetKeys(c, ok) ==
    /\ pc[c] = "getKeys"
    /\ fetchFailed' = ~ok
    /\ LET keys == submitParseKeys(indexBlob) IN
       IF ~ok \/ ~keys.isArray
       THEN /\ pc' = [pc EXCEPT ![c] = "idle"]
            /\ pending' = [pending EXCEPT ![c] = NoPending]
       ELSE /\ pc' = [pc EXCEPT ![c] = "setKeys"]
            /\ pending' = [pending EXCEPT ![c].keys = Append(keys.items, pending[c].id)]
    /\ UNCHANGED <<storeVars, resources, submitsStarted, submitted>>

\* await contract.setData("resource_keys", ...), then await loadResources().
submitSetKeys(c, ok) ==
    /\ pc[c] = "setKeys"
    /\ IF ok
       THEN /\ indexBlob' = JsonBlob(Array(pending[c].keys))
            /\ pc' = [pc EXCEPT ![c] = "loadKeys"]
       ELSE /\ pc' = [pc EXCEPT ![c] = "idle"]
            /\ UNCHANGED indexBlob
    /\ pending' = [pending EXCEPT ![c] = NoPending]
    /\ fetchFailed' = FALSE
    /\ UNCHANGED <<recordBlob, resources, submitsStarted, submitted>>

\* loadResources, lines 89-96: keys parsed from the index blob; [] when the
\* blob is empty or does not parse.
loadParseKeys(blob) ==
    IF blob = EmptyBlob \/ blob = MalformedBlob THEN Array(<<>>) ELSE blob[2]

\* Truthiness of a string or undefined.
truthy(v) == v # Undefined /\ v # Str("")

\* Mutant: the two encrypted fields are swapped.
loadRecordSwapped(key, data) ==
    [id |-> key,
     encryptedAmount |-> Get(data, "rate"),
     encryptedRate |-> Get(data, "amount"),
     timestamp |-> Get(data, "timestamp"),
     owner |-> Get(data, "owner"),
     resourceType |-> Get(data, "resourceType"),
     status |-> IF truthy(Get(data, "status")) THEN Get(data, "status")
                ELSE Str("active")]

\* loadResources, lines 106-114: the list entry built from a parsed blob.
loadRecord(key, data) ==
    [id |-> key,
     encryptedAmount |-> Get(data, "amount"),
     encryptedRate |-> Get(data, "rate"),
     timestamp |-> Get(data, "timestamp"),
     owner |-> Get(data, "owner"),
     resourceType |-> Get(data, "resourceType"),
     status |-> IF truthy(Get(data, "status")) THEN Get(data, "status")
                ELSE Str("active")]

\* Mutant: a blob that cannot be used ends the list built so far.
loadPushReset(list, key, blob) ==
    IF blob = EmptyBlob \/ blob = MalformedBlob \/ blob = NullBlob THEN <<>>
    ELSE Append(list, loadRecord(key, blob[2]))

\* loadResources, lines 102-116: the list after the blob of one key has been
\* read; a blob that is empty or does not parse adds nothing, and neither
\* does one that parses to null, where reading resourceData.amount throws.
loadPush(list, key, blob) ==
    IF blob = EmptyBlob \/ blob = MalformedBlob \/ blob = NullBlob THEN list
    ELSE Append(list, loadRecord(key, blob[2]))

\* The value is a number other than NaN.
isNumber(v) == v # Undefined /\ v[1] = "number" /\ ~v[2]

\* (a, b) => b.timestamp - a.timestamp is positive: b goes before a.  The
\* difference is NaN, which sort takes as 0, unless both are numbers.
sortsBefore(b, a) ==
    /\ isNumber(a.timestamp) /\ isNumber(b.timestamp)
    /\ b.timestamp[3] > a.timestamp[3]

\* list.sort((a, b) => b.timestamp - a.timestamp): stable, newest first.
RECURSIVE insertByTimestamp(_, _)
insertByTimestamp(sorted, e) ==
    IF sorted = <<>> THEN <<e>>
    ELSE IF ~sortsBefore(e, Head(sorted))
         THEN <<Head(sorted)>> \o insertByTimestamp(Tail(sorted), e)
         ELSE <<e>> \o sorted

RECURSIVE sortByTimestamp(_)
sortByTimestamp(list) ==
    IF list = <<>> THEN <<>>
    ELSE insertByTimestamp(sortByTimestamp(SubSeq(list, 1, Len(list) - 1)),
                           list[Len(list)])

\* loadResources is started (on mount, by the refresh button).
loadResources(c) ==
    /\ pc[c] = "idle"
    /\ pc' = [pc EXCEPT ![c] = "loadKeys"]
    /\ fetchFailed' = FALSE
    /\ UNCHANGED <<storeVars, pending, resources, submitsStarted, submitted>>

\* const keysBytes = await contract.getData("resource_keys") returns (ok) or
\* throws: a throw, like iterating a parsed value that is no array, ends the
\* function in its outer catch and the list is left as it was; with no keys
\* the empty list is set at once.
loadGetKeys(c, ok) ==
    /\ pc[c] = "loadKeys"
    /\ fetchFailed' = ~ok
    /\ LET keys == loadParseKeys(indexBlob) IN
       IF ~ok \/ ~keys.isArray
       THEN /\ pc' = [pc EXCEPT ![c] = "idle"]
            /\ pending' = [pending EXCEPT ![c] = NoPending]
            /\ UNCHANGED resources
       ELSE IF keys.items = <<>>
       THEN /\ pc' = [pc EXCEPT ![c] = "idle"]
            /\ pending' = [pending EXCEPT ![c] = NoPending]
            /\ resources' = [resources EXCEPT ![c] = sortByTimestamp(<<>>)]
       ELSE /\ pc' = [pc EXCEPT ![c] = "loadRecords"]
            /\ pending' = [pending EXCEPT ![c] = [NoPending EXCEPT !.keys = keys.items]]
            /\ UNCHANGED resources
    /\ UNCHANGED <<storeVars, submitsStarted, submitted>>

\* await contract.getData(`resource_${key}`) returns (ok) or throws for the
\* next key of the loop: a throw is caught inside the loop and the key is
\* skipped; after the last key the list is sorted and handed to setResources.
loadRecords(c, ok) ==
    /\ pc[c] = "loadRecords"
    /\ fetchFailed' = ~ok
    /\ LET key == Head(pending[c].keys)
           rest == Tail(pending[c].keys)
           list == IF ok THEN loadPush(pending[c].list, key, recordBlob[key])
                   ELSE pending[c].list
       IN IF rest = <<>>
          THEN /\ resources' = [resources EXCEPT ![c] = sortByTimestamp(list)]
               /\ pc' = [pc EXCEPT ![c] = "idle"]
               /\ pending' = [pending EXCEPT ![c] = NoPending]
          ELSE /\ pending' = [pending EXCEPT ![c].keys = rest, ![c].list = list]
               /\ UNCHANGED <<pc, resources>>
    /\ UNCHANGED <<storeVars, submitsStarted, submitted>>

\* A step of the record functions touches neither the batch contract nor the
\* detail modal.
AtRest == UNCHANGED <<contractVars, modalVars>>

NextFront ==
    \/ \E c \in Clients, id \in RecordIds, amount \in Amounts, rate \in Rates,
          ts \in Timestamps, type \in ResourceTypes :
          AtRest /\ submitResource(c, id, amount, rate, ts, type)
    \/ \E c \in Clients, ok \in BOOLEAN :
          AtRest /\ submitSetRecord(c, ok)
    \/ \E c \in Clients, ok \in BOOLEAN :
          AtRest /\ submitGetKeys(c, ok)
    \/ \E c \in Clients, ok \in BOOLEAN :
          AtRest /\ submitSetKeys(c, ok)
    \/ \E c \in Clients :
          AtRest /\ loadResources(c)
    \/ \E c \in Clients, ok \in BOOLEAN :
          AtRest /\ loadGetKeys(c, ok)
    \/ \E c \in Clients, ok \in BOOLEAN :
          AtRest /\ loadRecords(c, ok)

(***************************************************************************)
(* A reverted transaction leaves nothing on chain but its receipt: once    *)
(* the receipt has been looked at, the chain goes on from the same state.  *)
(***************************************************************************)
discardReceipt ==
    /\ lastCall.result # "ok"
    /\ lastCall' = NoCall
    /\ UNCHANGED <<storage, eventLog, oracle, budget, now, frontVars>>

\* The chain takes the next transaction once the last receipt is settled; a
\* transaction does not touch the front end.
Ready == lastCall.result = "ok" /\ UNCHANGED frontVars

NextContract ==
    \/ \E s \in Senders, p \in Address : Ready /\ addProvider(s, p)
    \/ \E s \in Senders, p \in Address : Ready /\ removeProvider(s, p)
    \/ \E s \in Senders, c \in CooldownValues : Ready /\ setCooldownSeconds(s, c)
    \/ \E s \in Senders : Ready /\ pause(s)
    \/ \E s \in Senders : Ready /\ unpause(s)
    \/ \E s \in Senders : Ready /\ openNewBatch(s)
    \/ \E s \in Senders : Ready /\ closeCurrentBatch(s)
    \/ \E s \in Senders, total \in TotalHandles, rate \in RateHandles :
          Ready /\ submitEncryptedResources(s, total, rate)
    \/ \E s \in Senders, player \in Address : Ready /\ requestDecryptionForPlayer(s, player)
    \/ \E s \in Senders, r \in RequestIds, c \in Cleartexts, ok \in BOOLEAN :
          Ready /\ myCallback(s, r, c, ok)
    \/ \E d \in TickSteps : Ready /\ Tick(d)
    \/ discardReceipt

\* The contract, with the front end at rest.
Init == InitContract /\ InitFrontWith(EmptyBlob)

Spec == Init /\ [][NextContract]_vars

\* The record store and its clients, with the contract as deployed.
InitStore == InitContract /\ \E blob \in IndexBlobs : InitFrontWith(blob)

SpecStore == InitStore /\ [][NextFront]_vars

(***************************************************************************)
(* loadResources over a store whose contents are given: any of the blobs   *)
(* below may be found under the index key and under each record key.       *)
(***************************************************************************)
\* A stored record as submitResource writes it, with the given timestamp.
StoredRecord(ts) == JsonBlob(stringify(resourceData(1, Num(5), Num(3), ts, "minerals")))

\* The JSON text "{}": an object with none of the properties.
EmptyObject == [name \in {} |-> Undefined]

RecordBlobs ==
    {EmptyBlob, MalformedBlob, NullBlob, JsonBlob(EmptyObject)}
      \cup {StoredRecord(ts) : ts \in Timestamps}

LoadIndexBlobs ==
    IndexBlobs \cup {JsonBlob(Array(keys)) : keys \in {<<1>>, <<1, 2>>, <<2, 1>>, <<1, 1>>}}

InitLoad ==
    /\ InitContract
    /\ indexBlob \in LoadIndexBlobs
    /\ recordBlob \in [RecordIds -> RecordBlobs]
    /\ pc = [c \in Clients |-> "idle"]
    /\ pending = [c \in Clients |-> NoPending]
    /\ resources = [c \in Clients |-> <<>>]
    /\ submitsStarted = 0
    /\ submitted = [k \in RecordIds |-> <<>>]
    /\ fetchFailed = FALSE
    /\ InitModal

NextLoad ==
    \/ \E c \in Clients :
          AtRest /\ loadResources(c)
    \/ \E c \in Clients, ok \in BOOLEAN :
          AtRest /\ loadGetKeys(c, ok)
    \/ \E c \in Clients, ok \in BOOLEAN :
          AtRest /\ loadRecords(c, ok)

SpecLoad == InitLoad /\ [][NextLoad]_vars

(***************************************************************************)
(* The detail modal (App.tsx 178-199, 348-373, 391-402): the rows of the   *)
(* list, the Decrypt button of a row, the asynchronous decryptResource it  *)
(* starts, and the closing of the modal.  One step per await; what runs    *)
(* between two awaits runs without interruption.                           *)
(***************************************************************************)
\* The App instance whose modal is followed.
Viewer == 1

\* atob on the texts btoa yields.
atob(b64) ==
    CASE b64 = "TmFO" -> "NaN" [] b64 = "Mw==" -> "3" [] b64 = "NQ==" -> "5"
      [] OTHER -> "0"

\* parseFloat on the strings the model holds: a decimal numeral or no number.
parseFloat(str) ==
    CASE str = "3" -> Num(3) [] str = "5" -> Num(5) [] str = "0" -> Num(0)
      [] OTHER -> NaN

\* The texts after the prefix "FHE-" of the strings the model holds.
Base64Texts == {btoa(toString(x)) : x \in {Num(0), Num(3), Num(5), NaN}}

\* encryptedData.startsWith('FHE-')
startsWithFHE(str) == \E b64 \in Base64Texts : str = "FHE-" \o b64

\* encryptedData.substring(4), of a string that starts with "FHE-"
substring4(str) == CHOOSE b64 \in Base64Texts : str = "FHE-" \o b64

\* FHEDecryptNumber, lines 23-28.
FHEDecryptNumber(encryptedData) ==
    IF startsWithFHE(encryptedData[2]) THEN parseFloat(atob(substring4(encryptedData[2])))
    ELSE parseFloat(encryptedData[2])

\* The rows of the list: one record as submitResource stores it, and one whose
\* rate is a plain numeral.
Rows ==
    <<loadRecord(1, resourceData(1, Num(5), Num(3), Num(2), "minerals")),
      loadRecord(2, [resourceData(2, NaN, Num(0), Num(1), "minerals")
                        EXCEPT !.rate = Str("0")])>>

\* Row onClick, line 352: setSelectedResource(resource).
selectRow(i) ==
    /\ i \in 1 .. Len(resources[Viewer])
    /\ selectedResource' = Object(resources[Viewer][i])
    /\ UNCHANGED <<decryptedAmount, decryptedRate, isDecrypting, decryptPc,
                   decryptLocals>>
    /\ UNCHANGED <<contractVars, storeVars, clientVars>>

\* The Decrypt button of a row, lines 364-370: disabled while isDecrypting;
\* decryptResource(resource) runs up to its first await, then
\* setSelectedResource(resource).  Without a connected wallet both calls of
\* decryptWithSignature return null at once (line 179) and nothing is set.
clickDecrypt(i, isConnected) ==
    /\ i \in 1 .. Len(resources[Viewer])
    /\ ~isDecrypting
    /\ selectedResource' = Object(resources[Viewer][i])
    /\ IF isConnected
       THEN /\ isDecrypting' = TRUE
            /\ decryptPc' = "sign1"
            /\ decryptLocals' = [NoDecrypt EXCEPT !.resource = Object(resources[Viewer][i])]
       ELSE UNCHANGED <<isDecrypting, decryptPc, decryptLocals>>
    /\ UNCHANGED <<decryptedAmount, decryptedRate>>
    /\ UNCHANGED <<contractVars, storeVars, clientVars>>

\* decryptResource, lines 197-198, after the finally of the second
\* decryptWithSignature (line 190): the results that are not null are set.
decryptFinish(amount, rate) ==
    /\ decryptedAmount' = IF amount # Null THEN amount ELSE decryptedAmount
    /\ decryptedRate' = IF rate # Null THEN rate ELSE decryptedRate
    /\ isDecrypting' = FALSE
    /\ decryptPc' = "idle"
    /\ decryptLocals' = NoDecrypt

\* await signMessageAsync({ message }), line 183: the wallet signs, or the
\* user rejects and the catch block returns null (lines 186-188).  After the
\* first call returns, the second one starts at once (line 196).
decryptSign(ok) ==
    /\ decryptPc \in {"sign1", "sign2"}
    /\ IF ok
       THEN /\ decryptPc' = IF decryptPc = "sign1" THEN "delay1" ELSE "delay2"
            /\ UNCHANGED <<decryptedAmount, decryptedRate, isDecrypting, decryptLocals>>
       ELSE IF decryptPc = "sign1"
       THEN /\ decryptPc' = "sign2"
            /\ decryptLocals' = [decryptLocals EXCEPT !.amount = Null]
            /\ UNCHANGED <<decryptedAmount, decryptedRate, isDecrypting>>
       ELSE decryptFinish(decryptLocals.amount, Null)
    /\ UNCHANGED selectedResource
    /\ UNCHANGED <<contractVars, storeVars, clientVars>>

\* await new Promise(resolve => setTimeout(resolve, 1500)), line 184, and
\* return FHEDecryptNumber(encryptedData), line 185.
decryptDelay ==
    /\ decryptPc \in {"delay1", "delay2"}
    /\ IF decryptPc = "delay1"
       THEN /\ decryptPc' = "sign2"
            /\ decryptLocals' =
                  [decryptLocals EXCEPT
                     !.amount = FHEDecryptNumber(decryptLocals.resource[2].encryptedAmount)]
            /\ UNCHANGED <<decryptedAmount, decryptedRate, isDecrypting>>
       ELSE decryptFinish(decryptLocals.amount,
                          FHEDecryptNumber(decryptLocals.resource[2].encryptedRate))
    /\ UNCHANGED selectedResource
    /\ UNCHANGED <<contractVars, storeVars, clientVars>>

\* ResourceDetailModal onClose, lines 394-398; the modal is rendered while
\* selectedResource is not null (line 391).
closeModal ==
    /\ selectedResource # Null
    /\ selectedResource' = Null
    /\ decryptedAmount' = Null
    /\ decryptedRate' = Null
    /\ UNCHANGED <<isDecrypting, decryptPc, decryptLocals>>
    /\ UNCHANGED <<contractVars, storeVars, clientVars>>

\* The App with its list loaded.
InitDecrypt ==
    /\ InitContract
    /\ indexBlob = JsonBlob(Array(<<1, 2>>))
    /\ recordBlob = [k \in RecordIds |-> EmptyBlob]
    /\ pc = [c \in Clients |-> "idle"]
    /\ pending = [c \in Clients |-> NoPending]
    /\ resources = [c \in Clients |-> Rows]
    /\ submitsStarted = 0
    /\ submitted = [k \in RecordIds |-> <<>>]
    /\ fetchFailed = FALSE
    /\ InitModal

NextDecrypt ==
    \/ \E i \in 1 .. Len(Rows) : selectRow(i)
    \/ \E i \in 1 .. Len(Rows), isConnected \in BOOLEAN : clickDecrypt(i, isConnected)
    \/ \E ok \in BOOLEAN : decryptSign(ok)
    \/ decryptDelay
    \/ closeModal

SpecDecrypt == InitDecrypt /\ [][NextDecrypt]_vars

(***************************************************************************)
(* Vocabulary of the properties.                                           *)
(***************************************************************************)
\* The request id was handed out by the oracle.
Issued(r) == r < counterRequest

\* The entry of (b, a) holds two initialised handles.
HasEntry(b, a) ==
    /\ isInitialized(playerData[b][a].encryptedTotalResources)
    /\ isInitialized(playerData[b][a].encryptedCollectionRate)

\* The handles now stored for the player request r was made for, in the batch of
\* the request, no longer hash to the hash taken at request time.
TargetChanged(r) ==
    hashCiphertexts(ctsArray(playerData[decryptionContexts[r].batchId][requestedFor[r]]))
        # decryptionContexts[r].stateHash

\* A cleartext that decodes, given with a proof that verifies.
GoodCleartexts == <<<<0, 5>>, <<0, 7>>>>

(***************************************************************************)
(* C1. A context is consumed at most once: processed never goes back to    *)
(* false, a callback on a processed context fails with ReplayAttempt for   *)
(* every sender, cleartext and proof, and DecryptionCompleted is in the    *)
(* log at most once per request id.                                        *)
(***************************************************************************)
C1_ReplayRejected ==
    \A r \in RequestIds :
        /\ completedCount[r] <= 1
        /\ completedCount[r] = 1 <=> decryptionContexts[r].processed
        /\ decryptionContexts[r].processed =>
              \A s \in Senders, c \in Cleartexts, ok \in BOOLEAN :
                  myCallbackResult(s, r, c, ok) = "ReplayAttempt"

C1_ProcessedOnce ==
    /\ []C1_ReplayRejected
    /\ [][\A r \in RequestIds :
             decryptionContexts[r].processed => decryptionContexts'[r].processed]_vars

\* A replay of the only request was rejected after its target's handles changed.
C1_Witness ==
    /\ counterRequest = 1
    /\ decryptionContexts[0].processed
    /\ TargetChanged(0)
    /\ lastCall.op = "myCallback"
    /\ lastCall.result = "ReplayAttempt"

(***************************************************************************)
(* C2. Senders that are not allow-listed get NotProvider from both         *)
(* provider functions.  As claimed: player data and decryption contexts    *)
(* are written only by transactions of allow-listed senders.               *)
(***************************************************************************)
C2_NotProvider ==
    \A s \in Senders :
        ~isProvider[s] =>
            /\ \A total \in TotalHandles, rate \in RateHandles :
                  submitEncryptedResourcesResult(s, total, rate) = "NotProvider"
            /\ \A player \in Address :
                  requestDecryptionForPlayerResult(s, player) = "NotProvider"

C2_Original ==
    /\ []C2_NotProvider
    /\ [][(playerData' # playerData \/ decryptionContexts' # decryptionContexts)
             => isProvider[lastCall'.sender]]_vars

\* C2 as amended: entries are written, and contexts created, only by
\* allow-listed senders; the only other write to a context is the processed
\* flag set by myCallback, which any sender may call.
C2_WritesByProviders ==
    /\ []C2_NotProvider
    /\ [][/\ playerData' # playerData =>
                /\ lastCall'.op = "submitEncryptedResources"
                /\ isProvider[lastCall'.sender]
                /\ \A b \in Batches, a \in Address :
                      playerData'[b][a] # playerData[b][a] => a = lastCall'.sender
          /\ decryptionContexts' # decryptionContexts =>
                \/ /\ lastCall'.op = "requestDecryptionForPlayer"
                   /\ isProvider[lastCall'.sender]
                \/ /\ lastCall'.op = "myCallback"
                   /\ \A r \in RequestIds :
                         decryptionContexts'[r] # decryptionContexts[r] =>
                            decryptionContexts'[r] =
                               [decryptionContexts[r] EXCEPT !.processed = TRUE]]_vars

\* A sender that had submitted, and was then removed, is refused.
C2_Witness ==
    /\ lastCall.op = "submitEncryptedResources"
    /\ lastCall.result = "NotProvider"
    /\ HasEntry(currentBatchId, lastCall.sender)

(***************************************************************************)
(* C3. As claimed: while paused, submitEncryptedResources,                 *)
(* requestDecryptionForPlayer and pause fail with Paused for every caller. *)
(***************************************************************************)
C3_Original ==
    paused =>
        \A s \in Senders :
            /\ pauseResult(s) = "Paused"
            /\ \A total \in TotalHandles, rate \in RateHandles :
                  submitEncryptedResourcesResult(s, total, rate) = "Paused"
            /\ \A player \in Address :
                  requestDecryptionForPlayerResult(s, player) = "Paused"

\* C3 as amended: while paused each of the three fails for every caller; with
\* Paused when the caller passes the access check that comes first, with
\* NotOwner (pause) or NotProvider (the provider functions) when it does not.
C3_PausedAfterAccess ==
    paused =>
        \A s \in Senders :
            /\ pauseResult(s) = IF s = owner THEN "Paused" ELSE "NotOwner"
            /\ \A total \in TotalHandles, rate \in RateHandles :
                  submitEncryptedResourcesResult(s, total, rate)
                     = IF isProvider[s] THEN "Paused" ELSE "NotProvider"
            /\ \A player \in Address :
                  requestDecryptionForPlayerResult(s, player)
                     = IF isProvider[s] THEN "Paused" ELSE "NotProvider"

\* A provider's submission was refused because the contract is paused.
C3_Witness ==
    /\ paused
    /\ lastCall.op = "submitEncryptedResources"
    /\ lastCall.result = "Paused"

(***************************************************************************)
(* C4. Submission cooldown.  lastSubmissionTime[p] is the time of p's last *)
(* successful submission (0: none); for an allow-listed p on an unpaused   *)
(* contract a submission before lastSubmissionTime[p] + cooldownSeconds    *)
(* fails with CooldownActive, and one at or after it, with the current     *)
(* batch open and both handles initialised, succeeds and sets              *)
(* lastSubmissionTime[p] to the time of the call; cooldownSeconds is the   *)
(* value stored when the call is made.                                     *)
(***************************************************************************)
C4_Window ==
    \A p \in Senders :
        isProvider[p] /\ ~paused =>
            \A total \in TotalHandles, rate \in RateHandles :
                LET res == submitEncryptedResourcesResult(p, total, rate) IN
                /\ now < lastSubmissionTime[p] + cooldownSeconds
                      => res = "CooldownActive"
                /\ ( /\ now >= lastSubmissionTime[p] + cooldownSeconds
                     /\ batchOpen[currentBatchId]
                     /\ isInitialized(total) /\ isInitialized(rate) )
                      => res = "ok"

C4_Cooldown ==
    /\ []C4_Window
    /\ [][IF lastCall'.op = "submitEncryptedResources" /\ lastCall'.result = "ok"
          THEN /\ now >= lastSubmissionTime[lastCall'.sender] + cooldownSeconds
               /\ lastSubmissionTime' =
                     [lastSubmissionTime EXCEPT ![lastCall'.sender] = now]
          ELSE lastSubmissionTime' = lastSubmissionTime]_vars

\* One provider submitted at the deployment time and again a full default
\* window later; a third submission in the same block was refused.
C4_Witness ==
    /\ lastCall.op = "submitEncryptedResources"
    /\ lastCall.result = "CooldownActive"
    /\ cooldownSeconds = DefaultCooldown
    /\ ownerCalls = 1
    /\ submissions = 2
    /\ now = StartTime + DefaultCooldown
    /\ lastSubmissionTime[lastCall.sender] = now

(***************************************************************************)
(* C5. As claimed: a requestDecryptionForPlayer by an allow-listed p on an *)
(* unpaused contract, made less than cooldownSeconds after p's previous    *)
(* successful requestDecryptionForPlayer or submission, fails with         *)
(* CooldownActive.                                                         *)
(***************************************************************************)
C5_RequestCooldown ==
    \A p \in Senders :
        ( /\ isProvider[p] /\ ~paused
          /\ \/ /\ lastDecryptionRequestTime[p] > 0
                /\ now < lastDecryptionRequestTime[p] + cooldownSeconds
             \/ /\ lastSubmissionTime[p] > 0
                /\ now < lastSubmissionTime[p] + cooldownSeconds )
        => \A player \in Address :
              requestDecryptionForPlayerResult(p, player) = "CooldownActive"

(***************************************************************************)
(* C6. As claimed: when the handles stored for the target player of an     *)
(* issued, unprocessed request have changed since the request, every       *)
(* callback for it fails with StateMismatch.                               *)
(***************************************************************************)
C6_ChangedHandlesRejected ==
    \A r \in RequestIds :
        (Issued(r) /\ ~decryptionContexts[r].processed /\ TargetChanged(r))
        => \A s \in Senders, c \in Cleartexts, ok \in BOOLEAN :
              myCallbackResult(s, r, c, ok) = "StateMismatch"

C8_RevertIsAtomic ==
    [][lastCall'.result # "ok" =>
          /\ UNCHANGED <<storage, eventLog>>
          /\ lastCall'.emitted = <<>>]_vars

\* A callback was rejected after a request had been issued and the contract
\* had been paused.
C8_Witness ==
    /\ lastCall.result = "StateMismatch"
    /\ counterRequest > 0
    /\ paused

(***************************************************************************)
(* C9. Entries are last-write-wins per (batch, player): a successful       *)
(* submission sets the entry of (currentBatchId, msg.sender) to the two    *)
(* handles submitted and changes no other entry; nothing else writes       *)
(* player data.                                                            *)
(***************************************************************************)
C9_LastWriteWins ==
    [][IF lastCall'.op = "submitEncryptedResources" /\ lastCall'.result = "ok"
       THEN playerData' =
               [playerData EXCEPT ![currentBatchId][lastCall'.sender] =
                   PlayerData(lastCall'.emitted[4], lastCall'.emitted[5])]
       ELSE playerData' = playerData]_vars

\* An initialised entry was overwritten with other handles.
C9_Witness ==
    /\ lastCall.op = "submitEncryptedResources"
    /\ lastCall.result = "ok"
    /\ submissions = 2
    /\ \A a \in Senders : a # lastCall.sender => ~HasEntry(currentBatchId, a)
    /\ \A b \in Batches : b # currentBatchId => ~HasEntry(b, lastCall.sender)
    /\ playerData[currentBatchId][lastCall.sender] = PlayerData(2, 1)

(***************************************************************************)
(* C10. Record store round trip: when loadResources gets the blob of a     *)
(* key that submitResource has written, the entry it adds has the id of    *)
(* the key and the field values of the object last written under the key,  *)
(* and every entry it has added is in the list it sets when it completes.  *)
(***************************************************************************)
\* The list entry with the field values of the stored object.
AsStored(key, data) ==
    [id |-> key,
     encryptedAmount |-> data.amount,
     encryptedRate |-> data.rate,
     timestamp |-> data.timestamp,
     owner |-> data.owner,
     resourceType |-> data.resourceType,
     status |-> data.status]

WrittenBySubmit(key) == DOMAIN submitted[key] # {}

C10_RoundTrip ==
    [][\A c \in Clients :
          (pc[c] = "loadRecords" /\ pending'[c] # pending[c] /\ ~fetchFailed') =>
              LET key == Head(pending[c].keys)
                  out == IF pc'[c] = "idle" THEN resources'[c] ELSE pending'[c].list
              IN /\ WrittenBySubmit(key) =>
                       \E j \in 1 .. Len(out) : out[j] = AsStored(key, submitted[key])
                 /\ \A i \in 1 .. Len(pending[c].list) :
                       \E j \in 1 .. Len(out) : out[j] = pending[c].list[i]]_vars

\* A client lists two records, the first of them one it did not submit itself.
C10_Witness ==
    \E c \in Clients :
        /\ pc[c] = "idle"
        /\ Len(resources[c]) = 2
        /\ resources[c][1].id # resources[c][2].id
        /\ \A j \in 1 .. 2 :
              /\ WrittenBySubmit(resources[c][j].id)
              /\ resources[c][j] = AsStored(resources[c][j].id,
                                            submitted[resources[c][j].id])
        /\ resources[c][1].owner # WalletAddress[c]

(***************************************************************************)
(* C11. As claimed: records are never lost from the global listing.  A     *)
(* record id is put into the resource_keys index by the last write of a    *)
(* successful submitResource, and by nothing else; once it is there it     *)
(* stays there, whatever steps the clients take.                           *)
(***************************************************************************)
\* The blob is a JSON array that has the record id among its items.
InIndex(blob, k) ==
    /\ blob # EmptyBlob /\ blob # MalformedBlob
    /\ blob[2].isArray
    /\ \E i \in 1 .. Len(blob[2].items) : blob[2].items[i] = k

C11_NeverLost ==
    [][\A k \in RecordIds : InIndex(indexBlob, k) => InIndex(indexBlob', k)]_vars

(***************************************************************************)
(* C12. A context becomes processed, and DecryptionCompleted is logged,    *)
(* only by a myCallback that found the context unprocessed, the hash of    *)
(* the re-fetched handles equal to the stored hash, the proof valid and    *)
(* two 32-bit values in the cleartext.  A callback rejected for the hash,  *)
(* the proof or the decoding leaves every callback's outcome as it was, so *)
(* a valid callback for the same request id can still succeed.             *)
(***************************************************************************)
\* The results of a callback that got past the replay check and was rejected.
CallbackRejections == {"StateMismatch", "InvalidSignatures", "DecodeError"}

C12_OkMeansAllPassed ==
    \A s \in Senders, r \in RequestIds, c \in Cleartexts, ok \in BOOLEAN :
        myCallbackResult(s, r, c, ok) = "ok" =>
            /\ ~decryptionContexts[r].processed
            /\ hashCiphertexts(ctsArray(playerData[decryptionContexts[r].batchId][s]))
                  = decryptionContexts[r].stateHash
            /\ ok
            /\ Len(c) >= 2 /\ c[1][1] = 0 /\ c[2][1] = 0

C12_ProcessedOnlyByValidCallback ==
    /\ []C12_OkMeansAllPassed
    /\ [][/\ \A r \in RequestIds :
                ( \/ decryptionContexts'[r].processed # decryptionContexts[r].processed
                  \/ completedCount'[r] # completedCount[r] )
                => /\ lastCall'.op = "myCallback"
                   /\ lastCall'.result = "ok"
                   /\ lastCall'.emitted[1] = "DecryptionCompleted"
                   /\ lastCall'.emitted[2] = r
                   /\ decryptionContexts'[r].processed
                   /\ completedCount'[r] = completedCount[r] + 1
          /\ (lastCall'.op = "myCallback" /\ lastCall'.result \in CallbackRejections)
                => /\ decryptionContexts' = decryptionContexts
                   /\ completedCount' = completedCount
                   /\ \A s \in Senders, r \in RequestIds, c \in Cleartexts, ok \in BOOLEAN :
                         myCallbackResult(s, r, c, ok)' = myCallbackResult(s, r, c, ok)]_vars

\* A callback was rejected for its proof or its cleartext while a valid
\* callback for the same request would succeed.
C12_Witness ==
    /\ lastCall.op = "myCallback"
    /\ lastCall.result \in {"InvalidSignatures", "DecodeError"}
    /\ counterRequest = 1
    /\ ~decryptionContexts[0].processed
    /\ myCallbackResult(lastCall.sender, 0, GoodCleartexts, TRUE) = "ok"

(***************************************************************************)
(* C13. With a fresh request id per request: a successful                  *)
(* requestDecryptionForPlayer creates the context of an id not issued      *)
(* before, with the current batch id, the hash of the target player's two  *)
(* handles and processed = false.  From then on its batchId and stateHash  *)
(* never change and it is never reset; the only step that changes it is a  *)
(* successful myCallback for its id, which sets processed to true.         *)
(***************************************************************************)
\* An issued context holds a batch id and a hash: it is never the default.
C13_IssuedContextExists ==
    \A r \in RequestIds :
        Issued(r) => /\ decryptionContexts[r].batchId >= 1
                     /\ decryptionContexts[r].stateHash # ZeroHash
                     /\ requestedCount[r] = 1

C13_ContextImmutable ==
    /\ []C13_IssuedContextExists
    /\ [][/\ (lastCall'.op = "requestDecryptionForPlayer" /\ lastCall'.result = "ok")
                => LET r == lastCall'.emitted[2] IN
                   /\ ~Issued(r) /\ r < counterRequest'
                   /\ decryptionContexts'[r] =
                         DecryptionContext(
                            currentBatchId,
                            hashCiphertexts(ctsArray(
                               playerData[currentBatchId][requestedFor'[r]])),
                            FALSE)
          /\ \A r \in RequestIds :
                Issued(r) =>
                   /\ decryptionContexts'[r].batchId = decryptionContexts[r].batchId
                   /\ decryptionContexts'[r].stateHash = decryptionContexts[r].stateHash
                   /\ decryptionContexts[r].processed => decryptionContexts'[r].processed
                   /\ decryptionContexts'[r] # decryptionContexts[r]
                         => /\ lastCall'.op = "myCallback"
                            /\ lastCall'.result = "ok"
                            /\ lastCall'.emitted[2] = r]_vars

\* A context is still unprocessed after a later block, a change of the
\* target's handles and a pause.
C13_Witness ==
    /\ counterRequest = 1
    /\ ~decryptionContexts[0].processed
    /\ decryptionContexts[0].batchId = 1
    /\ TargetChanged(0)
    /\ paused
    /\ now > StartTime

(***************************************************************************)
(* C14. The outcome of myCallback depends on the context, the sender's     *)
(* stored handles, the cleartext and the proof only: a step that is not a  *)
(* submission, a request or a callback (pause, unpause, the batch and      *)
(* provider functions, setCooldownSeconds, a later block) leaves the       *)
(* outcome of every callback as it was, so a request issued before such a  *)
(* step can still be completed after it.                                   *)
(***************************************************************************)
C14_CallbackIndependent ==
    [][lastCall'.op \notin {"submitEncryptedResources", "requestDecryptionForPlayer",
                            "myCallback"}
          => \A s \in Senders, r \in RequestIds, c \in Cleartexts, ok \in BOOLEAN :
                myCallbackResult(s, r, c, ok)' = myCallbackResult(s, r, c, ok)]_vars

\* A request was completed by a callback sent while the contract was paused.
C14_Witness ==
    /\ lastCall.op = "myCallback"
    /\ lastCall.result = "ok"
    /\ paused
    /\ counterRequest = 1
    /\ decryptionContexts[0].processed

(***************************************************************************)
(* C15. Batch transitions.  openNewBatch by the owner succeeds, adds       *)
(* exactly 1 to currentBatchId, sets batchOpen of the new id and changes   *)
(* no other flag.  closeCurrentBatch by the owner clears the flag of the   *)
(* current batch and leaves currentBatchId, and fails with InvalidArgument *)
(* when the current batch is already closed.                               *)
(***************************************************************************)
C15_OwnerBatchResults ==
    /\ openNewBatchResult(owner) = "ok"
    /\ closeCurrentBatchResult(owner) =
          IF batchOpen[currentBatchId] THEN "ok" ELSE "InvalidArgument"

C15_BatchTransitions ==
    /\ []C15_OwnerBatchResults
    /\ [][/\ (lastCall'.op = "openNewBatch" /\ lastCall'.result = "ok")
                => /\ currentBatchId' = currentBatchId + 1
                   /\ batchOpen' = [batchOpen EXCEPT ![currentBatchId + 1] = TRUE]
          /\ (lastCall'.op = "closeCurrentBatch" /\ lastCall'.result = "ok")
                => /\ batchOpen[currentBatchId]
                   /\ currentBatchId' = currentBatchId
                   /\ batchOpen' = [batchOpen EXCEPT ![currentBatchId] = FALSE]
          /\ (lastCall'.op = "closeCurrentBatch" /\ lastCall'.result = "InvalidArgument")
                => /\ lastCall'.sender = owner
                   /\ ~batchOpen[currentBatchId]
                   /\ UNCHANGED <<currentBatchId, batchOpen>>]_vars

\* The owner opened batch 2, closed it, and was refused closing it again;
\* batch 1 is still open.
C15_Witness ==
    /\ lastCall.op = "closeCurrentBatch"
    /\ lastCall.result = "InvalidArgument"
    /\ currentBatchId = 2
    /\ batchOpen[1]

(***************************************************************************)
(* C16. While the current batch is closed (from closeCurrentBatch to the   *)
(* next openNewBatch) every submitEncryptedResources and every             *)
(* requestDecryptionForPlayer by an allow-listed provider that is off      *)
(* cooldown, on an unpaused contract, fails with BatchNotOpen.  With the   *)
(* current batch open, such a provider's request for a player with no      *)
(* initialised entry in the current batch fails with InvalidArgument.  A   *)
(* request that fails creates no context.                                  *)
(***************************************************************************)
C16_ClosedBatchRefuses ==
    \A p \in Senders :
        (isProvider[p] /\ ~paused /\ now >= lastSubmissionTime[p] + cooldownSeconds)
        => /\ ~batchOpen[currentBatchId] =>
                 /\ \A total \in TotalHandles, rate \in RateHandles :
                       submitEncryptedResourcesResult(p, total, rate) = "BatchNotOpen"
                 /\ \A player \in Address :
                       requestDecryptionForPlayerResult(p, player) = "BatchNotOpen"
           /\ batchOpen[currentBatchId] =>
                 \A player \in Address :
                    ~HasEntry(currentBatchId, player) =>
                       requestDecryptionForPlayerResult(p, player) = "InvalidArgument"

C16_OnlyWhileOpen ==
    /\ []C16_ClosedBatchRefuses
    /\ [][/\ ( /\ lastCall'.op \in {"submitEncryptedResources",
                                    "requestDecryptionForPlayer"}
               /\ lastCall'.result = "ok" ) => batchOpen[currentBatchId]
          /\ ( /\ lastCall'.op = "requestDecryptionForPlayer"
               /\ lastCall'.result # "ok" )
                => UNCHANGED <<decryptionContexts, counterRequest, requestedCount>>]_vars

\* A provider that had submitted into the current batch was refused a second
\* submission, a cooldown window later, because the batch had been closed.
C16_Witness ==
    /\ lastCall.op = "submitEncryptedResources"
    /\ lastCall.result = "BatchNotOpen"
    /\ HasEntry(currentBatchId, lastCall.sender)
    /\ now >= lastSubmissionTime[lastCall.sender] + DefaultCooldown
    /\ cooldownSeconds = DefaultCooldown

(***************************************************************************)
(* C17. Owner-only administration: addProvider, removeProvider,            *)
(* setCooldownSeconds, unpause, openNewBatch and closeCurrentBatch fail    *)
(* with NotOwner for every sender other than owner, and such a call        *)
(* changes nothing.  owner is the deployer and never changes, so           *)
(* isProvider, cooldownSeconds, paused, currentBatchId and batchOpen are   *)
(* changed by transactions of the deployer only.                           *)
(***************************************************************************)
C17_NotOwner ==
    /\ owner = Deployer
    /\ \A s \in Senders :
          s # owner =>
             /\ \A p \in Address : /\ addProviderResult(s, p) = "NotOwner"
                                   /\ removeProviderResult(s, p) = "NotOwner"
             /\ setCooldownSecondsResult(s) = "NotOwner"
             /\ unpauseResult(s) = "NotOwner"
             /\ openNewBatchResult(s) = "NotOwner"
             /\ closeCurrentBatchResult(s) = "NotOwner"

C17_OwnerOnly ==
    /\ []C17_NotOwner
    /\ [][/\ owner' = owner
          /\ lastCall'.result = "NotOwner" => UNCHANGED <<storage, eventLog>>
          /\ <<isProvider, cooldownSeconds, paused, currentBatchId, batchOpen>>'
                # <<isProvider, cooldownSeconds, paused, currentBatchId, batchOpen>>
                => /\ lastCall'.sender = Deployer
                   /\ lastCall'.result = "ok"]_vars

\* With the contract paused and a provider allow-listed, that provider was
\* refused unpausing it.
C17_Witness ==
    /\ lastCall.op = "unpause"
    /\ lastCall.result = "NotOwner"
    /\ lastCall.sender # Deployer
    /\ isProvider[lastCall.sender]
    /\ paused

(***************************************************************************)
(* C18. As claimed: loadResources skips bad entries.  Each key of the      *)
(* index whose fetch succeeds and whose blob is not empty and parses as    *)
(* JSON adds exactly one record, with the key as its id, to the list;      *)
(* every other key adds nothing; no step removes a record already in the   *)
(* list; the list handed to setResources is in descending order of         *)
(* timestamp; an empty index blob, or one that does not parse, yields the  *)
(* empty list.                                                             *)
(***************************************************************************)
\* How often x occurs in the sequence.
Count(seq, x) == Cardinality({i \in DOMAIN seq : seq[i] = x})

\* The two sequences hold the same entries, each as often.
SameEntries(a, b) ==
    /\ Len(a) = Len(b)
    /\ \A i \in DOMAIN a : Count(a, a[i]) = Count(b, a[i])

\* The sequence without its j-th entry.
Without(seq, j) == SubSeq(seq, 1, j - 1) \o SubSeq(seq, j + 1, Len(seq))

\* Entries with a numeric timestamp are in descending order of it.
Descending(list) ==
    \A i, j \in DOMAIN list :
        (i < j /\ isNumber(list[i].timestamp) /\ isNumber(list[j].timestamp))
        => list[i].timestamp[3] >= list[j].timestamp[3]

\* The step of client c in which the fetch of the next key of its loop ends:
\* the key adds one record when adds is true, and nothing otherwise.
LoadStep(c, adds) ==
    LET key == Head(pending[c].keys)
        done == pc'[c] = "idle"
        out == IF done THEN resources'[c] ELSE pending'[c].list
    IN /\ IF adds
          THEN \E j \in DOMAIN out :
                  /\ out[j].id = key
                  /\ SameEntries(Without(out, j), pending[c].list)
          ELSE SameEntries(out, pending[c].list)
       /\ done => Descending(out)
       /\ ~done => \A i \in DOMAIN pending[c].list : out[i] = pending[c].list[i]

\* The step of client c in which the fetch of the index ends.
IndexStep(c) ==
    (~fetchFailed' /\ (indexBlob = EmptyBlob \/ indexBlob = MalformedBlob))
        => pc'[c] = "idle" /\ resources'[c] = <<>>

NeverIssued(r) == requestedCount[r] = 0

C19_UnissuedNeverSucceeds ==
    /\ \A r \in RequestIds :
          NeverIssued(r) =>
              /\ \A s \in Senders, c \in Cleartexts, ok \in BOOLEAN :
                    myCallbackResult(s, r, c, ok) = "StateMismatch"
              /\ completedCount[r] = 0
    /\ (lastCall.op = "myCallback" /\ lastCall.result = "ok") =>
          /\ lastCall.emitted[1] = "DecryptionCompleted"
          /\ ~NeverIssued(lastCall.emitted[2])

\* A callback with entries stored, sent before any id was issued, has reverted
\* with StateMismatch.
C19_Witness ==
    /\ lastCall.op = "myCallback"
    /\ lastCall.result = "StateMismatch"
    /\ \A r \in RequestIds : NeverIssued(r)
    /\ HasEntry(currentBatchId, lastCall.sender)


(***************************************************************************)
(* C20. Batch history is monotone and frozen: currentBatchId is at least 1 *)
(* and never decreases, no batch above currentBatchId is open, a batch at  *)
(* or below currentBatchId that is closed stays closed, and a call changes *)
(* player data of the current batch only, so the entries of a batch below  *)
(* currentBatchId never change.                                            *)
(***************************************************************************)
C20_BatchRange ==
    /\ currentBatchId >= 1
    /\ \A b \in Batches : b > currentBatchId => ~batchOpen[b]

\* The batch has been closed: it is not above the current one and not open.
Closed(b) == b <= currentBatchId /\ ~batchOpen[b]

C20_HistoryFrozen ==
    /\ []C20_BatchRange
    /\ [][/\ currentBatchId' >= currentBatchId
          /\ \A b \in Batches :
                /\ Closed(b) => ~batchOpen'[b]
                /\ b # currentBatchId => playerData'[b] = playerData[b]
                /\ b < currentBatchId => playerData'[b] = playerData[b]]_vars

\* A submission has just been written into batch 2 while the sender's entry
\* of batch 1 holds other handles.
C20_Witness ==
    /\ lastCall.op = "submitEncryptedResources"
    /\ lastCall.result = "ok"
    /\ currentBatchId = 2
    /\ HasEntry(1, lastCall.sender)
    /\ HasEntry(2, lastCall.sender)
    /\ playerData[2][lastCall.sender] # playerData[1][lastCall.sender]


(***************************************************************************)
(* C21. The decrypted values of the detail modal belong to the selected    *)
(* resource: in every state, when decryptedAmount (decryptedRate) is not   *)
(* null, selectedResource is not null and the value is the decoding of its *)
(* encryptedAmount (encryptedRate), whatever was closed or selected while  *)
(* decryptResource was running.                                            *)
(***************************************************************************)
C21_ShownValuesBelong ==
    /\ decryptedAmount # Null =>
          /\ selectedResource # Null
          /\ decryptedAmount = FHEDecryptNumber(selectedResource[2].encryptedAmount)
    /\ decryptedRate # Null =>
          /\ selectedResource # Null
          /\ decryptedRate = FHEDecryptNumber(selectedResource[2].encryptedRate)
====
